---- MODULE Spec2Model ----
(***************************************************************************)
(* A model of the might-be-minified crate (src/src/lib.rs): analyze_str,   *)
(* its layout scanner and approximate tokenizer, and the metric methods of *)
(* Analysis.  A text is a sequence of characters; every character carries  *)
(* the properties the code reads of it (White_Space, the identifier        *)
(* classes, \w, its UTF-8 length).  f32 values are modelled as exact       *)
(* rationals <<numerator, denominator>>.                                   *)
(***************************************************************************)
EXTENDS Integers, Sequences, FiniteSets

VARIABLES code, pc, idx, line_lengths, ident_lengths, space, not_space,
          line_width, pos, result

vars == <<code, pc, idx, line_lengths, ident_lengths, space, not_space,
          line_width, pos, result>>

\* ------------------------------------------------------------- bounds
\* Every text of at most MaxLen characters over Alphabet is analysed.
MaxLen == 3
\* One text is a single line of LongLine identifier characters.
LongLine == 1001
\* One text has ManyLines lines of one character each.
ManyLines == 21

\* --------------------------------------------------------- characters
Tab == "\t"
LF == "\n"
CR == "\r"
Space == " "
SQuote == "'"
DQuote == "\""
\* U+0060, GRAVE ACCENT.
Backtick == "U+0060"
Backslash == "\\"
Slash == "/"
Star == "*"
\* U+00E9, LATIN SMALL LETTER E WITH ACUTE: category Ll, two bytes in UTF-8.
EAcute == "U+00E9"

Lowercase ==
    {"a", "b", "c", "d", "e", "f", "g", "h", "i", "j", "k", "l", "m", "n",
     "o", "p", "q", "r", "s", "t", "u", "v", "w", "x", "y", "z"}

Digits == {"0", "1", "2", "3", "4", "5", "6", "7", "8", "9"}

\* The characters the modelled texts are made of.
Alphabet ==
    {"i", "f", EAcute, "1", Space, Tab, CR, LF, SQuote, Backslash, Slash}

\* char::is_whitespace and the regex class \s: the White_Space property.
is_whitespace(c) == c \in {Space, Tab, CR, LF}

\* The number of bytes of c in UTF-8: regex offsets are byte offsets.
len_utf8(c) == IF c = EAcute THEN 2 ELSE 1

\* [\p{Lu}\p{Ll}\p{Lt}\p{Lm}\p{Lo}\p{Nl}$_]
IdentStart(c) == c \in Lowercase \cup {EAcute, "$", "_"}

\* [\p{Lu}\p{Ll}\p{Lt}\p{Lm}\p{Lo}\p{Nl}\p{Mn}\p{Mc}\p{Nd}\p{Pc}$_]
IdentContinue(c) == c \in Lowercase \cup Digits \cup {EAcute, "$", "_"}

\* The regex class \w, which \b is defined by.
WordChar(c) == c \in Lowercase \cup Digits \cup {EAcute, "_"}

\* The regex . without the s flag: any character but a line feed.
Dot(c) == c # LF

\* The keyword alternatives of BASIC_TOKEN_RE, in the order of the pattern.
Keywords ==
    << <<"a","s","y","n","c">>, <<"a","w","a","i","t">>,
       <<"b","r","e","a","k">>, <<"c","a","s","e">>,
       <<"c","a","t","c","h">>, <<"c","l","a","s","s">>,
       <<"c","o","n","t","i","n","u","e">>,
       <<"d","e","b","u","g","g","e","r">>,
       <<"d","e","f","a","u","l","t">>, <<"d","e","l","e","t","e">>,
       <<"d","o">>, <<"e","l","s","e">>, <<"e","x","p","o","r","t">>,
       <<"e","x","t","e","n","d","s">>, <<"f","i","n","a","l","l","y">>,
       <<"f","o","r">>, <<"f","u","n","c","t","i","o","n">>,
       <<"i","f">>, <<"i","m","p","o","r","t">>,
       <<"i","n","s","t","a","n","c","e","o","f">>, <<"i","n">>,
       <<"l","e","t">>, <<"n","e","w">>, <<"n","u","l","l">>,
       <<"r","e","t","u","r","n">>, <<"s","t","a","t","i","c">>,
       <<"s","u","p","e","r">>, <<"s","w","i","t","c","h">>,
       <<"t","h","i","s">>, <<"t","h","r","o","w">>,
       <<"t","r","u","e">>, <<"t","r","y">>,
       <<"t","y","p","e","o","f">>, <<"v","a","r">>,
       <<"v","o","i","d">>, <<"w","h","i","l","e">>,
       <<"w","i","t","h">> >>

\* ------------------------------------------------------------ matching
\* Positions are 1-based character indices; a match is [start, end) and an
\* end of 0 says "no match here".

\* The character classes a greedy or lazy repetition of the patterns runs over.
InClass(c, class) ==
    CASE class = "." -> Dot(c)
      [] class = "\\s" -> is_whitespace(c)
      [] class = "ident_continue" -> IdentContinue(c)

\* The first position from p on whose character is not of the class
\* (Len + 1 at the end of the text).
RunEnd(s, p, class) ==
    CHOOSE j \in p..(Len(s) + 1) :
        /\ (j = Len(s) + 1 \/ ~InClass(s[j], class))
        /\ \A k \in p..(j - 1) : InClass(s[k], class)

\* Whether s continues at p with the characters of w.
StartsWith(s, p, w) ==
    /\ p + Len(w) - 1 <= Len(s)
    /\ \A k \in 1..Len(w) : s[p + k - 1] = w[k]

\* \b at p: exactly one of the characters before and at p is a \w character.
WordBoundary(s, p) ==
    LET before == p > 1 /\ p - 1 <= Len(s) /\ WordChar(s[p - 1])
        after == p >= 1 /\ p <= Len(s) /\ WordChar(s[p])
    IN before # after

\* //.*?$ (multi-line: $ is the end of the text or the place before a line
\* feed) and /\*.*?\*/ (the body cannot hold a line feed).
CommentEnd(s, p) ==
    IF StartsWith(s, p, <<Slash, Slash>>)
    THEN RunEnd(s, p + 2, ".")
    ELSE IF StartsWith(s, p, <<Slash, Star>>)
    THEN LET stop == RunEnd(s, p + 2, ".")
             closes == {q \in (p + 2)..(stop - 2) :
                           StartsWith(s, q, <<Star, Slash>>)}
         IN IF closes = {} THEN 0
            ELSE (CHOOSE q \in closes : \A r \in closes : q <= r) + 2
    ELSE 0

\* \s+
WhitespaceEnd(s, p) ==
    IF p <= Len(s) /\ is_whitespace(s[p]) THEN RunEnd(s, p, "\\s")
    ELSE 0

\* The body and closing quote of  q([^q\\]*(?:\\.[^q\\]*)*)q  from position p.
RECURSIVE StringBodyEnd(_, _, _)
StringBodyEnd(s, p, q) ==
    IF p > Len(s) THEN 0
    ELSE IF s[p] = q THEN p + 1
    ELSE IF s[p] = Backslash
    THEN IF p + 1 <= Len(s) /\ Dot(s[p + 1])
         THEN StringBodyEnd(s, p + 2, q) ELSE 0
    ELSE StringBodyEnd(s, p + 1, q)

StringEnd(s, p) ==
    IF p <= Len(s) /\ s[p] \in {SQuote, DQuote, Backtick}
    THEN StringBodyEnd(s, p + 1, s[p])
    ELSE 0

\* \\/|/
RegexOpEnd(s, p) ==
    IF StartsWith(s, p, <<Backslash, Slash>>) THEN p + 2
    ELSE IF StartsWith(s, p, <<Slash>>) THEN p + 1
    ELSE 0

\* (?:\b async|await|...|with)\b : the leading \b belongs to the first
\* alternative alone, the trailing one to all.
KeywordMatches(s, p, k) ==
    /\ StartsWith(s, p, Keywords[k])
    /\ (k = 1 => WordBoundary(s, p))
    /\ WordBoundary(s, p + Len(Keywords[k]))

KeywordEnd(s, p) ==
    LET ks == {k \in DOMAIN Keywords : KeywordMatches(s, p, k)}
    IN IF ks = {} THEN 0
       ELSE p + Len(Keywords[CHOOSE k \in ks : \A j \in ks : k <= j])

\* The ident branch, and IDENT_RE anchored at p.
IdentEnd(s, p) ==
    IF p <= Len(s) /\ IdentStart(s[p]) THEN RunEnd(s, p + 1, "ident_continue")
    ELSE 0

\* The branch of BASIC_TOKEN_RE that matches at p: the first in the order of
\* the pattern.
TokenKind(s, p) ==
    IF CommentEnd(s, p) # 0 THEN "comment"
    ELSE IF WhitespaceEnd(s, p) # 0 THEN "whitespace"
    ELSE IF StringEnd(s, p) # 0 THEN "string"
    ELSE IF RegexOpEnd(s, p) # 0 THEN "regex_op"
    ELSE IF KeywordEnd(s, p) # 0 THEN "keyword"
    ELSE IF IdentEnd(s, p) # 0 THEN "ident"
    ELSE "none"

\* The end of BASIC_TOKEN_RE's match starting at p, 0 if there is none.
TokenEnd(s, p) ==
    LET kind == TokenKind(s, p)
    IN CASE kind = "comment" -> CommentEnd(s, p)
         [] kind = "whitespace" -> WhitespaceEnd(s, p)
         [] kind = "string" -> StringEnd(s, p)
         [] kind = "regex_op" -> RegexOpEnd(s, p)
         [] kind = "keyword" -> KeywordEnd(s, p)
         [] kind = "ident" -> IdentEnd(s, p)
         [] OTHER -> 0

\* find_iter: the start of the leftmost match at or after p, 0 if none.
NextMatchStart(s, p) ==
    IF \E t \in p..Len(s) : TokenEnd(s, t) # 0
    THEN CHOOSE t \in p..Len(s) :
            TokenEnd(s, t) # 0 /\ \A u \in p..(t - 1) : TokenEnd(s, u) = 0
    ELSE 0

\* Faulty variant: every match of BASIC_TOKEN_RE is recorded.
IdentReIsMatchAlways(s, from, to) == TRUE

\* IDENT_RE.is_match(m.as_str()): an unanchored search of the matched text
\* s[from .. to-1]; it succeeds as soon as some character of it can start an
\* identifier.
IdentReIsMatch(s, from, to) ==
    \E k \in from..(to - 1) : IdentEnd(s, k) # 0

\* A byte offset: the UTF-8 length of the characters before position p.
ByteOffset(s, p) ==
    LET n(b) == Cardinality({k \in 1..(p - 1) : len_utf8(s[k]) = b})
    IN n(1) + 2 * n(2) + 3 * n(3) + 4 * n(4)

\* m.end() - m.start()
MatchLen(s, from, to) == ByteOffset(s, to) - ByteOffset(s, from)

\* Vec::sort on integers: the ascending arrangement of the entries.
RECURSIVE Insert(_, _)
Insert(s, x) ==
    IF s = <<>> THEN <<x>>
    ELSE IF x <= Head(s) THEN <<x>> \o s
    ELSE <<Head(s)>> \o Insert(Tail(s), x)

\* Faulty variant: the list is left in the order of the pushes.
sort_omitted(s) == s

RECURSIVE sort(_)
sort(s) == IF s = <<>> THEN <<>> ELSE Insert(sort(Tail(s)), Head(s))

\* ------------------------------------------------------------- inputs
\* The text w repeated n times.
Repeat(w, n) == [k \in 1..(Len(w) * n) |-> w[((k - 1) % Len(w)) + 1]]

ShortTexts == UNION {[1..n -> Alphabet] : n \in 0..MaxLen}

\* Texts beyond MaxLen: a very long line, very many lines, long
\* identifiers, a block comment, the other two string delimiters, and the
\* one-line function  function foo(a,b){return a+b;}
LongTexts ==
    {Repeat(<<"i">>, LongLine),
     Repeat(<<"i", LF>>, ManyLines),
     Repeat(<<"i", "f", "i", "f", "i", "f", "i", Space>>, 2),
     <<Slash, Star, "i", "f", Star, Slash, "$", "i", "f">>,
     <<DQuote, "i", Backslash, DQuote, DQuote, Backtick, LF, Backtick>>,
     <<"f", "u", "n", "c", "t", "i", "o", "n", Space, "f", "o", "o", "(",
       "a", ",", "b", ")", "{", "r", "e", "t", "u", "r", "n", Space, "a",
       "+", "b", ";", "}">>}

Texts == ShortTexts \cup LongTexts

NoResult == [method |-> "none", panic |-> FALSE, value |-> 0]

\* ---------------------------------------------------------- analyze_str
\* The locals of analyze_str before its first loop.
Init ==
    /\ code \in Texts
    /\ pc = "scan"
    /\ idx = 1
    /\ line_lengths = <<>>
    /\ ident_lengths = <<>>
    /\ space = 0
    /\ not_space = 1
    /\ line_width = 0
    /\ pos = 1
    /\ result = NoResult

\* Faulty variant: a carriage return is skipped before it is counted.
SpaceAfterSkippingCR(c, n) ==
    IF c = CR THEN n
    ELSE IF c = Tab THEN n + 4 ELSE IF is_whitespace(c) THEN n + 1 ELSE n

\* "count whitespace": the counters after character c.
SpaceAfter(c, n) ==
    IF c = Tab THEN n + 4 ELSE IF is_whitespace(c) THEN n + 1 ELSE n

NotSpaceAfter(c, n) ==
    IF c = Tab \/ is_whitespace(c) THEN n ELSE n + 1

\* "detect shapes": the width of the current line after character c.
LineWidthAfter(c, w) ==
    IF c = CR THEN w
    ELSE IF c = LF THEN 0
    ELSE w + (IF c = Tab THEN 4 ELSE 1)

\* Faulty variant: a line of width 0 is recorded too.
PushLineAlways(ls, w) == Append(ls, w)

\* The line a line feed closes is recorded when its width is not 0.
PushLine(ls, w) == IF w > 0 THEN Append(ls, w) ELSE ls

LineLengthsAfter(c, ls, w) ==
    IF c = CR THEN ls
    ELSE IF c = LF THEN PushLine(ls, w)
    ELSE ls

\* One iteration of the loop over code.chars().
ScanChar ==
    /\ pc = "scan"
    /\ idx <= Len(code)
    /\ LET c == code[idx]
       IN /\ space' = SpaceAfter(c, space)
          /\ not_space' = NotSpaceAfter(c, not_space)
          /\ line_lengths' = LineLengthsAfter(c, line_lengths, line_width)
          /\ line_width' = LineWidthAfter(c, line_width)
    /\ idx' = idx + 1
    /\ UNCHANGED <<code, pc, ident_lengths, pos, result>>

\* After the loop: the last line, when the text does not end with a line feed.
ScanFlush ==
    /\ pc = "scan"
    /\ idx > Len(code)
    /\ line_lengths' = PushLine(line_lengths, line_width)
    /\ pc' = "tokenize"
    /\ UNCHANGED <<code, idx, ident_lengths, space, not_space, line_width,
                   pos, result>>

\* The lengths after the match [from, to) of BASIC_TOKEN_RE.
IdentLengthsAfter(s, from, to, ls) ==
    IF IdentReIsMatch(s, from, to) THEN Append(ls, MatchLen(s, from, to))
    ELSE ls

\* One iteration of the loop over BASIC_TOKEN_RE.find_iter(code).
TokenStep ==
    /\ pc = "tokenize"
    /\ NextMatchStart(code, pos) # 0
    /\ LET from == NextMatchStart(code, pos)
           to == TokenEnd(code, from)
       IN /\ ident_lengths' = IdentLengthsAfter(code, from, to, ident_lengths)
          /\ pos' = to
    /\ UNCHANGED <<code, pc, idx, line_lengths, space, not_space, line_width,
                   result>>

\* No match is left: both lists are sorted and the Analysis is built.
Finish ==
    /\ pc = "tokenize"
    /\ NextMatchStart(code, pos) = 0
    /\ line_lengths' = sort(line_lengths)
    /\ ident_lengths' = sort(ident_lengths)
    /\ pc' = "done"
    /\ UNCHANGED <<code, idx, space, not_space, line_width, pos, result>>

\* The Analysis analyze_str returned (once pc = "done").
self ==
    [line_lengths |-> line_lengths, ident_lengths |-> ident_lengths,
     space_count |-> space, non_space_count |-> not_space]

\* ------------------------------------------------------- f32, exactly
\* An f32 is the exact rational <<n, d>> in lowest terms with d >= 0;
\* <<1, 0>> is +inf, <<-1, 0>> is -inf and <<0, 0>> is NaN.
Abs(n) == IF n < 0 THEN -n ELSE n

RECURSIVE GCD(_, _)
GCD(a, b) == IF b = 0 THEN a ELSE GCD(b, a % b)

Rat(n, d) ==
    LET g == GCD(Abs(n), Abs(d))
        sgn == IF d < 0 THEN -1 ELSE 1
    IN IF g = 0 THEN <<0, 0>> ELSE <<sgn * (n \div g), sgn * (d \div g)>>

\* `n as f32`
F32(n) == <<n, 1>>

RAdd(a, b) ==
    IF a[2] = 0 THEN a
    ELSE IF b[2] = 0 THEN b
    ELSE LET l == (a[2] \div GCD(a[2], b[2])) * b[2]
         IN Rat(a[1] * (l \div a[2]) + b[1] * (l \div b[2]), l)

RSub(a, b) == RAdd(a, <<-b[1], b[2]>>)

RMul(a, b) == Rat(a[1] * b[1], a[2] * b[2])

RDiv(a, b) == Rat(a[1] * b[2], a[2] * b[1])

\* a < b; every comparison with NaN is false.
RLt(a, b) == a[1] * b[2] < b[1] * a[2]

RLe(a, b) == RLt(a, b) \/ (a = b /\ a # <<0, 0>>)

\* ----------------------------------------------------- partial_clamp
\* partial_clamp::<usize>
partial_clamp(l, u, v) == IF v < l THEN l ELSE IF v > u THEN u ELSE v

\* Faulty variant: the upper bound is not applied.
partial_clamp_f32_no_upper(l, u, v) == IF RLt(v, l) THEN l ELSE v

\* partial_clamp::<f32>
partial_clamp_f32(l, u, v) ==
    IF RLt(v, l) THEN l ELSE IF RLt(u, v) THEN u ELSE v

\* ------------------------------------------------------------ Analysis
\* What a method returns, or that it did not: an index out of bounds
\* panics, and so does a usize subtraction below 0 in a build with overflow
\* checks (without them it wraps to a huge value: a failure of the
\* subtraction all the same).
Ret(v) == [panic |-> FALSE, value |-> v]
Panic == [panic |-> TRUE, value |-> 0]

\* a - b on usize
CheckedSub(a, b) == IF a >= b THEN Ret(a - b) ELSE Panic

\* s[i], 0-based
Index(s, i) == IF i < Len(s) THEN Ret(s[i + 1]) ELSE Panic

\* *s.get(i).unwrap_or(&0), 0-based
GetOr0(s, i) == IF i < Len(s) THEN s[i + 1] ELSE 0

space_to_code_ratio(a) == RDiv(F32(a.space_count), F32(a.non_space_count))

\* Faulty variant: the lower median, index (len - 1) / 2.
median_ident_length_lower(a) ==
    IF Len(a.line_lengths) = 0 \/ Len(a.ident_lengths) = 0 THEN 0
    ELSE GetOr0(a.ident_lengths, (Len(a.ident_lengths) - 1) \div 2)

median_ident_length(a) ==
    IF Len(a.line_lengths) = 0 THEN 0
    ELSE GetOr0(a.ident_lengths, Len(a.ident_lengths) \div 2)

longest_line(a) ==
    IF Len(a.line_lengths) = 0 THEN Ret(0)
    ELSE LET i == CheckedSub(Len(a.line_lengths), 1)
         IN IF i.panic THEN Panic ELSE Ret(GetOr0(a.line_lengths, i.value))

\* Faulty variant: the quarter is rounded up.
ShapeIndexRoundedUp(n) == ((n + 3) \div 4) * 3

\* The 0-based index shape() reads the width at: len / 4 * 3
ShapeIndex(n) == (n \div 4) * 3

shape(a) ==
    IF Len(a.line_lengths) = 0 THEN Ret(F32(0))
    ELSE LET width == Index(a.line_lengths, ShapeIndex(Len(a.line_lengths)))
             height == Len(a.line_lengths)
         IN IF width.panic THEN Panic
            ELSE Ret(RDiv(F32(height), F32(width.value)))

\* The let bindings of minified_probability.
p_space(a) ==
    RMul(RSub(<<1, 2>>,
              partial_clamp_f32(F32(0), <<1, 2>>, space_to_code_ratio(a))),
         F32(2))

p_name(a) ==
    LET inner == CheckedSub(partial_clamp(1, 6, median_ident_length(a)), 1)
        outer == IF inner.panic THEN Panic ELSE CheckedSub(5, inner.value)
    IN IF outer.panic THEN Panic ELSE Ret(RDiv(F32(outer.value), F32(5)))

p_shape(a) ==
    LET s == shape(a)
    IN IF s.panic THEN Panic
       ELSE Ret(RDiv(RSub(F32(20), partial_clamp_f32(F32(0), F32(20), s.value)),
                     F32(20)))

p_line(a) ==
    LET l == longest_line(a)
    IN IF l.panic THEN Panic
       ELSE Ret(RDiv(F32(partial_clamp(0, 1000, l.value)), F32(1000)))

\* The weights 0.1, 0.4, 0.2, 0.3 of p_space, p_name, p_shape, p_line.
Weights == << <<1, 10>>, <<2, 5>>, <<1, 5>>, <<3, 10>> >>

minified_probability(a) ==
    LET space_term == p_space(a)
        name_term == p_name(a)
        shape_term == p_shape(a)
        line_term == p_line(a)
    IN IF name_term.panic \/ shape_term.panic \/ line_term.panic THEN Panic
       ELSE Ret(RAdd(RAdd(RAdd(RMul(space_term, Weights[1]),
                               RMul(name_term.value, Weights[2])),
                          RMul(shape_term.value, Weights[3])),
                     RMul(line_term.value, Weights[4])))

is_likely_minified(a) ==
    LET p == minified_probability(a)
    IN IF p.panic THEN Panic ELSE Ret(RLt(<<1, 2>>, p.value))

\* A call of a method on the Analysis: its outcome is recorded in result,
\* and a panic ends the program.
Call(method, r) ==
    /\ pc = "done"
    /\ result' = [method |-> method, panic |-> r.panic, value |-> r.value]
    /\ pc' = IF r.panic THEN "panicked" ELSE "done"
    /\ UNCHANGED <<code, idx, line_lengths, ident_lengths, space, not_space,
                   line_width, pos>>

CallSpaceToCodeRatio ==
    Call("space_to_code_ratio", Ret(space_to_code_ratio(self)))

CallMedianIdentLength ==
    Call("median_ident_length", Ret(median_ident_length(self)))

CallLongestLine == Call("longest_line", longest_line(self))

CallShape == Call("shape", shape(self))

CallMinifiedProbability ==
    Call("minified_probability", minified_probability(self))

CallIsLikelyMinified == Call("is_likely_minified", is_likely_minified(self))

Next ==
    \/ ScanChar
    \/ ScanFlush
    \/ TokenStep
    \/ Finish
    \/ CallSpaceToCodeRatio
    \/ CallMedianIdentLength
    \/ CallLongestLine
    \/ CallShape
    \/ CallMinifiedProbability
    \/ CallIsLikelyMinified

Spec == Init /\ [][Next]_vars

\* =============================================================== claims
\* What the claims speak of, stated on the text itself.

Done == pc = "done"
Scanned == pc # "scan"

\* The number of positions of s whose character is in the set cs.
CountOf(s, cs) == Cardinality({k \in 1..Len(s) : s[k] \in cs})

Whitespace == {Tab, Space, CR, LF}
IsNotWhitespace(c) == c \notin Whitespace

\* The segments the line feeds separate the text into: where each starts.
SegmentStarts(s) == {1} \cup {k + 1 : k \in {j \in 1..Len(s) : s[j] = LF}}

\* k lies in the segment that starts at b.
InSegment(s, b, k) == k >= b /\ k <= Len(s) /\ \A j \in b..k : s[j] # LF

\* The visual width of s[b..k] when that holds no line feed: 4 per tab,
\* 0 per carriage return, 1 per other character.
WidthOf(s, b, k) ==
    4 * Cardinality({j \in b..k : s[j] = Tab})
        + Cardinality({j \in b..k : s[j] \notin {Tab, CR}})

SegmentWidth(s, b) ==
    4 * Cardinality({k \in b..Len(s) : InSegment(s, b, k) /\ s[k] = Tab})
        + Cardinality({k \in b..Len(s) :
                          InSegment(s, b, k) /\ s[k] \notin {Tab, CR}})

Occurrences(seq, x) == Cardinality({k \in DOMAIN seq : seq[k] = x})

SegmentsOfWidth(s, w) ==
    Cardinality({b \in SegmentStarts(s) : SegmentWidth(s, b) = w})

\* The width the scanner holds after the first k characters: that of the
\* part of the prefix after its last line feed.
AccumulatedAfter(s, k) ==
    LET feeds == {j \in 1..k : s[j] = LF}
        b == IF feeds = {} THEN 1
             ELSE (CHOOSE j \in feeds : \A i \in feeds : i <= j) + 1
    IN WidthOf(s, b, k)

MaxAccumulated(s) ==
    LET widths == {AccumulatedAfter(s, k) : k \in 0..Len(s)}
    IN CHOOSE m \in widths : \A w \in widths : w <= m

IsSorted(seq) == \A k \in 1..(Len(seq) - 1) : seq[k] <= seq[k + 1]

InUnit(r) == RLe(F32(0), r) /\ RLe(r, F32(1))

\* The match the tokenizer is about to take, when there is one.
AtMatch == pc = "tokenize" /\ NextMatchStart(code, pos) # 0
MatchFrom == NextMatchStart(code, pos)
MatchTo == TokenEnd(code, MatchFrom)

\* C1: minified_probability() lies in [0, 1], as does each of p_space,
\* p_name, p_shape and p_line, and the four weights sum to 1.
C1_ProbabilityInUnitInterval ==
    /\ RAdd(RAdd(RAdd(Weights[1], Weights[2]), Weights[3]), Weights[4])
           = F32(1)
    /\ result.method = "minified_probability" =>
          /\ ~result.panic
          /\ InUnit(result.value)
          /\ InUnit(p_space(self))
          /\ ~p_name(self).panic /\ InUnit(p_name(self).value)
          /\ ~p_shape(self).panic /\ InUnit(p_shape(self).value)
          /\ ~p_line(self).panic /\ InUnit(p_line(self).value)

\* minified_probability() was called where the clamps of the longest line and
\* of the median identifier length cut the value.
C1_Witness ==
    /\ result.method = "minified_probability"
    /\ ~result.panic
    /\ longest_line(self).value > 1000
    /\ median_ident_length(self) > 6

\* minified_probability() was called where the clamps of the ratio and of
\* the shape cut the value.
C1_WitnessShape ==
    /\ result.method = "minified_probability"
    /\ ~result.panic
    /\ RLt(F32(20), shape(self).value)

\* C2: a token the alternation matches as a keyword, a string or a comment
\* adds no entry to identifier_lengths.
C2_OnlyIdentBranchRecorded ==
    [][(AtMatch /\ TokenKind(code, MatchFrom) \in {"keyword", "string", "comment"})
          => ident_lengths' = ident_lengths]_vars

\* C3: each entry of identifier_lengths is the number of characters of the
\* recorded token.
C3_LengthInCharacters ==
    [][(AtMatch /\ ident_lengths' # ident_lengths)
          => ident_lengths' = Append(ident_lengths, MatchTo - MatchFrom)]_vars

\* C4: line_widths holds, as a multiset, exactly the widths > 0 of the
\* segments the line feeds separate the text into (the last one included),
\* a width being 4 per tab, 0 per carriage return and 1 per other
\* character; no entry is ever 0.
C4_LineWidths ==
    /\ \A k \in DOMAIN line_lengths : line_lengths[k] > 0
    /\ Scanned =>
          \A w \in {line_lengths[k] : k \in DOMAIN line_lengths}
                   \cup ({SegmentWidth(code, b) : b \in SegmentStarts(code)}
                            \ {0}) :
              Occurrences(line_lengths, w) = SegmentsOfWidth(code, w)

\* The analysis of a text with a carriage return, a tab, a segment of width
\* 0 and a last segment that no line feed ends.
C4_Witness ==
    /\ Done
    /\ \E k \in DOMAIN code : code[k] = CR
    /\ \E k \in DOMAIN code : code[k] = Tab
    /\ \E b \in SegmentStarts(code) : SegmentWidth(code, b) = 0
    /\ code[Len(code)] # LF
    /\ line_lengths # <<>>

\* C5: space_count is 4 per tab plus 1 per other whitespace character,
\* non_space_count is 1 plus the number of non-whitespace characters; so
\* non_space_count >= 1 and space_count >= 0 always, and the empty text
\* gives 0 and 1.
C5_SpaceCounts ==
    /\ not_space >= 1
    /\ space >= 0
    /\ Scanned =>
          /\ space = 4 * CountOf(code, {Tab}) + CountOf(code, Whitespace \ {Tab})
          /\ not_space = 1 + Len(code) - CountOf(code, Whitespace)
          /\ code = <<>> => (space = 0 /\ not_space = 1)

\* The analysis of a text with a tab, a carriage return and a character
\* that is no whitespace.
C5_Witness ==
    /\ Done
    /\ \E k \in DOMAIN code : code[k] = Tab
    /\ \E k \in DOMAIN code : code[k] = CR
    /\ \E k \in DOMAIN code : IsNotWhitespace(code[k])

\* C6: with n >= 1 lines, shape() is n divided by the entry of the ascending
\* line_widths at the 0-based index floor(n*3/4); with none it is 0.0.
C6_ShapeAtP75 ==
    (result.method = "shape" /\ ~result.panic) =>
        LET n == Len(line_lengths)
        IN IF n = 0 THEN result.value = F32(0)
           ELSE result.value
                    = RDiv(F32(n), F32(line_lengths[((n * 3) \div 4) + 1]))

\* C7: line_widths and identifier_lengths are sorted ascending, no metric
\* method changes them, and longest_line() is the largest width the scanner
\* ever accumulated (0 if there is none).
C7_SortedAndLongest ==
    /\ [](Done => IsSorted(line_lengths) /\ IsSorted(ident_lengths))
    /\ [][Done => (line_lengths' = line_lengths
                     /\ ident_lengths' = ident_lengths
                     /\ space' = space /\ not_space' = not_space)]_vars
    /\ [](result.method = "longest_line" =>
             ~result.panic /\ result.value = MaxAccumulated(code))

\* longest_line() was called on the analysis of a text whose lines do not
\* come in ascending order of width.
C7_Witness ==
    /\ result.method = "longest_line"
    /\ \E b1, b2 \in SegmentStarts(code) :
          b1 < b2 /\ SegmentWidth(code, b1) > SegmentWidth(code, b2)
                  /\ SegmentWidth(code, b2) > 0

\* C8: median_ident_length() is 0 when line_widths is empty; otherwise it is
\* the entry of identifier_lengths at the 0-based index floor(len/2), and 0
\* when identifier_lengths is empty.
C8_MedianIdentLength ==
    result.method = "median_ident_length" =>
        /\ ~result.panic
        /\ result.value
              = IF line_lengths = <<>> THEN 0
                ELSE IF ident_lengths = <<>> THEN 0
                ELSE ident_lengths[(Len(ident_lengths) \div 2) + 1]

\* median_ident_length() was called where the upper and the lower median
\* differ.
C8_Witness ==
    /\ result.method = "median_ident_length"
    /\ Len(ident_lengths) = 2
    /\ ident_lengths[1] < ident_lengths[2]
    /\ result.value = ident_lengths[2]

\* C9: no operation fails: no method panics; in shape() the index len/4*3 is
\* within line_widths and the entry there is not 0; longest_line() reads
\* index len-1 only of a list that is not empty; and
\* 5 - (clamp(1, 6, median_ident_length) - 1) stays >= 0.
C9_Total ==
    /\ pc # "panicked"
    /\ ~result.panic
    /\ Done =>
          /\ ~longest_line(self).panic
          /\ ~shape(self).panic
          /\ ~minified_probability(self).panic
          /\ ~is_likely_minified(self).panic
          /\ line_lengths # <<>> =>
                /\ ShapeIndex(Len(line_lengths)) < Len(line_lengths)
                /\ line_lengths[ShapeIndex(Len(line_lengths)) + 1] # 0
          /\ partial_clamp(1, 6, median_ident_length(self)) >= 1
          /\ 5 >= partial_clamp(1, 6, median_ident_length(self)) - 1

\* shape() was called on the analysis of a text with lines but no
\* identifiers.
C9_Witness ==
    /\ result.method = "shape"
    /\ line_lengths # <<>>
    /\ ident_lengths = <<>>

\* C10: when line_widths is empty so is identifier_lengths; hence
\* median_ident_length() is identifier_lengths[len/2], or 0 when
\* identifier_lengths is empty, whatever line_widths is.
C10_GuardNeverMatters ==
    /\ Done => (line_lengths = <<>> => ident_lengths = <<>>)
    /\ Done =>
          median_ident_length(self)
              = IF ident_lengths = <<>> THEN 0
                ELSE ident_lengths[(Len(ident_lengths) \div 2) + 1]
    /\ result.method = "median_ident_length" =>
          result.value
              = IF ident_lengths = <<>> THEN 0
                ELSE ident_lengths[(Len(ident_lengths) \div 2) + 1]

\* median_ident_length() was called on the analysis of a text that is not
\* empty and has no line of a width > 0.
C10_Witness ==
    /\ result.method = "median_ident_length"
    /\ code # <<>>
    /\ line_lengths = <<>>

====
